---- MODULE Spec2Model ----
(***************************************************************************)
(* State-machine model of src/main.py (Mathematics Genealogy Project,      *)
(* Brazil analysis): the acquisition cache, the parallel and sequential    *)
(* record acquisition, and the ranking / graph analysis of main().         *)
(***************************************************************************)
EXTENDS Integers, Sequences, FiniteSets, Bags, TLC

(***************************************************************************)
(* Bounds of the model and constants of the program.                       *)
(***************************************************************************)
\* longest id list of the enumerated family of remote directories
MaxIds == 3

\* main.py:21  MAX_WORKERS = 10
MAX_WORKERS == 10

\* main.py:200 and :216  most_common(10)
TopN == 10

\* Python's None, as the value of a missing 'ID'
NONE == "None"

(***************************************************************************)
(* Python values.                                                          *)
(***************************************************************************)
\* one degree entry of student_data['degrees']:
\* 'advised by' is a dict id -> name (kept in insertion order),
\* 'schools' a list of names, each name a sequence of words
Degree(adv, schools) == [advised_by |-> adv, schools |-> schools]

\* advisees: a dict id -> name, or (upstream quirk) a list
Advisees(isList, items) == [list |-> isList, items |-> items]

\* a JSON document returned by /acad?id=..., with 'MGP_academic'
Rec(id, name, degrees, dc, advisees) ==
    [none |-> FALSE, empty |-> FALSE, acad |-> TRUE, ID |-> id, name |-> name,
     degrees |-> degrees, dcount |-> dc, advisees |-> advisees]

\* the JSON document {} : a falsy value
EmptyRec ==
    [none |-> FALSE, empty |-> TRUE, acad |-> FALSE, ID |-> NONE, name |-> "",
     degrees |-> <<>>, dcount |-> 0, advisees |-> Advisees(FALSE, <<>>)]

\* a non-empty JSON document without the key 'MGP_academic'
NoAcadRec == [EmptyRec EXCEPT !.empty = FALSE]

\* Python's None as the result of a task
NoneVal == [EmptyRec EXCEPT !.none = TRUE, !.empty = FALSE]

\* bool(x) of a task's result
Truthy(r) == ~r.none /\ ~r.empty

\* one remote response to /acad?id=... : a failure (transport error or
\* non-2xx status, raised by raise_for_status) or a JSON body
Ok(body) == [fail |-> FALSE, body |-> body]
Fail == [fail |-> TRUE, body |-> NoneVal]

Min(a, b) == IF a < b THEN a ELSE b

Range(s) == {s[i] : i \in 1..Len(s)}

(***************************************************************************)
(* The remote directories the model runs against.  A directory is the      *)
(* response of /search?country=Brazil and one response per id.             *)
(***************************************************************************)
Brazil == "Brazil"
USP == <<"USP", Brazil>>
IMPA == <<"IMPA", "Brasil">>
MIT == <<"MIT", "USA">>

NoAdvisees == Advisees(FALSE, <<>>)

\* record of the enumerated family: one degree, advised by P, whose display
\* name is spelled differently in every record
GenRec(id) ==
    Rec(id, id, <<Degree(<<<<"P", id>>>>, <<USP>>)>>, 1, NoAdvisees)

GenList == <<"A", "X", "B", "C", "D", "E">>

\* the JSON of /search: a flat id list (each id held as a one-element group
\* here) or a list of id groups
Flat(ids) == [grouped |-> FALSE, items |-> [i \in 1..Len(ids) |-> <<ids[i]>>]]

GenBody(kind, id) ==
    CASE kind = "fail"  -> Fail
      [] kind = "empty" -> Ok(EmptyRec)
      [] OTHER          -> Ok(GenRec(id))

\* every id list <<"A","X","B",..>> up to MaxIds with every assignment of
\* outcomes (failure, empty record, record) to its ids
GenDirectories ==
    UNION { { [search |-> Flat(SubSeq(GenList, 1, n)),
               resp |-> [id \in Range(SubSeq(GenList, 1, n)) |-> GenBody(k[id], id)]]
              : k \in [Range(SubSeq(GenList, 1, n)) -> {"fail", "empty", "ok"}] }
            : n \in 0..Min(MaxIds, Len(GenList)) }

\* A advised B and C, B advised D, E is disconnected
Genealogy5 ==
    [search |-> [grouped |-> TRUE,
                 items |-> << <<"A", "A2">>, <<"B">>, <<>>, <<"C">>, <<"D">>, <<"E">> >>],
     resp |-> [id \in {"A", "B", "C", "D", "E"} |->
        CASE id = "A" -> Ok(Rec("A", "a", <<>>, 3,
                              Advisees(FALSE, << <<"B", "b">>, <<"C", "c">> >>)))
          [] id = "B" -> Ok(Rec("B", "b", <<Degree(<< <<"A", "a">> >>, <<USP>>)>>, 1,
                              Advisees(FALSE, << <<"D", "d">> >>)))
          [] id = "C" -> Ok(Rec("C", "c", <<Degree(<< <<"A", "a">> >>, <<IMPA>>)>>, 0,
                              Advisees(TRUE, << <<"", "">> >>)))
          [] id = "D" -> Ok(Rec("D", "d", <<Degree(<< <<"B", "b">> >>, <<MIT>>)>>, 0,
                              NoAdvisees))
          [] OTHER    -> Ok(Rec("E", "e", <<>>, 0, NoAdvisees))]]

\* two advisor/student pairs: the largest component is exactly half the graph
TwoPairs ==
    [search |-> Flat(<<"B", "D">>),
     resp |-> [id \in {"B", "D"} |->
        IF id = "B"
        THEN Ok(Rec("B", "b", <<Degree(<< <<"A", "a">> >>, <<USP>>)>>, 0, NoAdvisees))
        ELSE Ok(Rec("D", "d", <<Degree(<< <<"C", "c">> >>, <<USP>>)>>, 0, NoAdvisees))]]

\* the same with one more student of A: one node more than half
TwoPairsPlus ==
    [search |-> Flat(<<"B", "D", "E">>),
     resp |-> [id \in {"B", "D", "E"} |->
        CASE id = "B" -> Ok(Rec("B", "b", <<Degree(<< <<"A", "a">> >>, <<USP>>)>>, 0, NoAdvisees))
          [] id = "D" -> Ok(Rec("D", "d", <<Degree(<< <<"C", "c">> >>, <<USP>>)>>, 0, NoAdvisees))
          [] OTHER    -> Ok(Rec("E", "e", <<Degree(<< <<"A", "a">> >>, <<IMPA>>),
                                            Degree(<<>>, <<MIT>>)>>, 0, NoAdvisees))]]

\* partially populated records: a record without 'ID', an advisor link whose
\* id is the empty string, a document without 'MGP_academic'
Partial ==
    [search |-> Flat(<<"A", "B", "C">>),
     resp |-> [id \in {"A", "B", "C"} |->
        CASE id = "A" -> Ok(Rec("A", "a", <<Degree(<< <<"", "unknown">> >>, <<USP>>)>>, 0,
                              NoAdvisees))
          [] id = "B" -> Ok(NoAcadRec)
          [] OTHER    -> Ok(Rec("C", "c", <<Degree(<< <<"A", "a">> >>, <<USP>>)>>, 0,
                              NoAdvisees))]]

NoSubject ==
    [search |-> Flat(<<"A", "B">>),
     resp |-> [id \in {"A", "B"} |->
        IF id = "A"
        THEN Ok(Rec(NONE, "a", <<Degree(<< <<"P", "p">> >>, <<USP>>)>>, 0, NoAdvisees))
        ELSE Ok(Rec("B", "b", <<Degree(<< <<"P", "p">> >>, <<USP>>)>>, 0, NoAdvisees))]]

Directories ==
    GenDirectories \cup {Genealogy5, TwoPairs, TwoPairsPlus, Partial, NoSubject}

(***************************************************************************)
(* Record Fetcher (main.py:38-58).                                         *)
(***************************************************************************)
RECURSIVE FirstOfGroups(_)
\* [id_list[0] for id_list in ids if id_list]
FirstOfGroups(groups) ==
    IF groups = <<>> THEN <<>>
    ELSE IF Head(groups) = <<>> THEN FirstOfGroups(Tail(groups))
    ELSE <<Head(groups)[1]>> \o FirstOfGroups(Tail(groups))

\* get_mathematician_ids_by_country, given the JSON of the response
get_mathematician_ids_by_country(json) ==
    IF json.items = <<>> THEN <<>>
    ELSE IF json.grouped THEN FirstOfGroups(json.items)
    ELSE [i \in 1..Len(json.items) |-> json.items[i][1]]

\* fetch_mathematician_parallel: the record, or None when the lookup raised
fetch_mathematician_parallel(response) ==
    IF response.fail THEN NoneVal ELSE response.body

(***************************************************************************)
(* Acquisition Cache (main.py:24-36).  The file holds the chunks json.dump *)
(* has written so far: "{", one chunk per key, "}".                        *)
(***************************************************************************)
Keys == <<"ids", "data", "timestamp">>

Chunk(t, ids, data, ts) == [t |-> t, ids |-> ids, data |-> data, ts |-> ts]

\* a JSON object with some of the keys ids, data, timestamp; None is NoCache
Json(keys, ids, data, ts) ==
    [none |-> FALSE, keys |-> keys, ids |-> ids, data |-> data, ts |-> ts]

NoCache == [none |-> TRUE, keys |-> {}, ids |-> <<>>, data |-> <<>>, ts |-> 0]

RECURSIVE KeyChunks(_, _)
KeyChunks(j, ks) ==
    IF ks = <<>> THEN <<>>
    ELSE (IF Head(ks) \in j.keys
          THEN <<Chunk(Head(ks),
                       IF Head(ks) = "ids" THEN j.ids ELSE <<>>,
                       IF Head(ks) = "data" THEN j.data ELSE <<>>,
                       IF Head(ks) = "timestamp" THEN j.ts ELSE 0)>>
          ELSE <<>>) \o KeyChunks(j, Tail(ks))

\* json.dump(data, f): the chunks written, in order
Dump(j) == <<Chunk("{", <<>>, <<>>, 0)>> \o KeyChunks(j, Keys) \o <<Chunk("}", <<>>, <<>>, 0)>>

\* whether json.load accepts the content (otherwise JSONDecodeError)
Decodes(content) ==
    /\ Len(content) >= 2
    /\ content[1].t = "{"
    /\ content[Len(content)].t = "}"
    /\ \A i \in 2..(Len(content) - 1) : content[i].t \in Range(Keys)

Pick(content, key) == CHOOSE i \in 2..(Len(content) - 1) : content[i].t = key

\* json.load(f) of a content that decodes
Load(content) ==
    LET ks == {content[i].t : i \in 2..(Len(content) - 1)}
    IN Json(ks,
            IF "ids" \in ks THEN content[Pick(content, "ids")].ids ELSE <<>>,
            IF "data" \in ks THEN content[Pick(content, "data")].data ELSE <<>>,
            IF "timestamp" \in ks THEN content[Pick(content, "timestamp")].ts ELSE 0)

NoFile == [exists |-> FALSE, readable |-> FALSE, content |-> <<>>]
File(content) == [exists |-> TRUE, readable |-> TRUE, content |-> content]
Unreadable(content) == [exists |-> TRUE, readable |-> FALSE, content |-> content]

\* load_cache(): the value returned, or the exception that leaves it
load_cache(f) ==
    IF ~f.exists THEN [raises |-> "", value |-> NoCache]
    ELSE IF ~f.readable THEN [raises |-> "PermissionError", value |-> NoCache]
    ELSE IF ~Decodes(f.content) THEN [raises |-> "JSONDecodeError", value |-> NoCache]
    ELSE [raises |-> "", value |-> Load(f.content)]

\* bool(cached_data)
CacheTruthy(j) == ~j.none /\ j.keys # {}

(***************************************************************************)
(* Relationship Extractor (main.py:90-122).                                *)
(***************************************************************************)
RECURSIVE FlattenAdvisors(_)
FlattenAdvisors(degrees) ==
    IF degrees = <<>> THEN <<>>
    ELSE Head(degrees).advised_by \o FlattenAdvisors(Tail(degrees))

\* extract_advisor_info: the (advisor_id, advisor_name) pairs of all degrees
extract_advisor_info(data) ==
    IF data.acad THEN FlattenAdvisors(data.degrees) ELSE <<>>

RECURSIVE FlattenSchools(_)
FlattenSchools(degrees) ==
    IF degrees = <<>> THEN <<>>
    ELSE Head(degrees).schools \o FlattenSchools(Tail(degrees))

\* extract_school_info: the schools of all degrees
extract_school_info(data) ==
    IF data.acad THEN FlattenSchools(data.degrees) ELSE <<>>

(***************************************************************************)
(* Ranking (main.py:187-238).  A Counter is the sequence of its entries in *)
(* insertion order.                                                        *)
(***************************************************************************)
Entry(key, name, count) == [key |-> key, name |-> name, count |-> count]

\* counter[key] += 1 ; names[key] = name
CounterAdd(c, key, name) ==
    IF \E i \in 1..Len(c) : c[i].key = key
    THEN [i \in 1..Len(c) |->
            IF c[i].key = key THEN Entry(key, name, c[i].count + 1) ELSE c[i]]
    ELSE Append(c, Entry(key, name, 1))

RECURSIVE CountLinks(_, _)
CountLinks(c, links) ==
    IF links = <<>> THEN c
    ELSE CountLinks(CounterAdd(c, Head(links)[1], Head(links)[2]), Tail(links))

RECURSIVE CountAdvisors(_, _)
\* main.py:192-196
CountAdvisors(c, datas) ==
    IF datas = <<>> THEN c
    ELSE CountAdvisors(CountLinks(c, extract_advisor_info(Head(datas))), Tail(datas))

\* "Brazil" in school or "Brasil" in school
IsBrazilian(school) == \E i \in 1..Len(school) : school[i] \in {"Brazil", "Brasil"}

RECURSIVE CountSchoolList(_, _)
CountSchoolList(c, schools) ==
    IF schools = <<>> THEN c
    ELSE CountSchoolList(IF IsBrazilian(Head(schools))
                         THEN CounterAdd(c, Head(schools), "")
                         ELSE c,
                         Tail(schools))

RECURSIVE CountSchools(_, _)
\* main.py:207-212
CountSchools(c, datas) ==
    IF datas = <<>> THEN c
    ELSE CountSchools(CountSchoolList(c, extract_school_info(Head(datas))), Tail(datas))

RECURSIVE InsertByCount(_, _)
\* e placed after every entry whose count is at least its own
InsertByCount(sorted, e) ==
    IF sorted = <<>> THEN <<e>>
    ELSE IF Head(sorted).count >= e.count
         THEN <<Head(sorted)>> \o InsertByCount(Tail(sorted), e)
         ELSE <<e>> \o sorted

RECURSIVE SortByCount(_, _)
SortByCount(sorted, c) ==
    IF c = <<>> THEN sorted
    ELSE SortByCount(InsertByCount(sorted, Head(c)), Tail(c))

\* Counter.most_common(n): descending by count, equal counts in insertion order
most_common(c, n) ==
    LET s == SortByCount(<<>>, c) IN SubSeq(s, 1, Min(n, Len(s)))

RECURSIVE ScanDescendants(_, _)
\* main.py:221-233: best is the pair (max_descendants, top_mathematician)
ScanDescendants(best, datas) ==
    IF datas = <<>> THEN best
    ELSE LET d == Head(datas) IN
         ScanDescendants(IF d.acad /\ d.dcount > best.max
                         THEN [max |-> d.dcount, top |-> d]
                         ELSE best,
                         Tail(datas))

NoTop == [max |-> 0, top |-> NoneVal]

(***************************************************************************)
(* Genealogy graph and its structure (main.py:240-301).  A graph keeps its *)
(* nodes in insertion order, as networkx does.                             *)
(***************************************************************************)
EmptyGraph == [nodes |-> <<>>, edges |-> {}]

AddNode(nodes, n) == IF n \in Range(nodes) THEN nodes ELSE Append(nodes, n)

\* G.add_edge(u, v): both endpoints become nodes
add_edge(g, u, v) ==
    [nodes |-> AddNode(AddNode(g.nodes, u), v), edges |-> g.edges \cup {<<u, v>>}]

RECURSIVE AddAdvisorEdges(_, _, _, _)
\* main.py:253-254 for one record; networkx refuses None as a node from
\* version 2.6 on (ValueError) and accepts it before
AddAdvisorEdges(st, links, student_id, refusesNone) ==
    IF links = <<>> \/ st.raises # "" THEN st
    ELSE IF refusesNone /\ (Head(links)[1] = NONE \/ student_id = NONE)
         THEN [st EXCEPT !.raises = "ValueError"]
         ELSE AddAdvisorEdges([st EXCEPT !.g = add_edge(st.g, Head(links)[1], student_id)],
                              Tail(links), student_id, refusesNone)

RECURSIVE BuildGraph(_, _, _)
\* main.py:244-254
BuildGraph(st, datas, refusesNone) ==
    IF datas = <<>> \/ st.raises # "" THEN st
    ELSE BuildGraph(IF Head(datas).acad
                    THEN AddAdvisorEdges(st, extract_advisor_info(Head(datas)),
                                         Head(datas).ID, refusesNone)
                    ELSE st,
                    Tail(datas), refusesNone)

\* G.to_undirected(): the edges in both directions
to_undirected(g) ==
    [nodes |-> g.nodes, edges |-> g.edges \cup {<<e[2], e[1]>> : e \in g.edges}]

\* nx.isolates: the nodes of degree 0, in node order
RECURSIVE SelectSeq2(_, _)
SelectSeq2(nodes, keep) ==
    IF nodes = <<>> THEN <<>>
    ELSE (IF Head(nodes) \in keep THEN <<Head(nodes)>> ELSE <<>>)
         \o SelectSeq2(Tail(nodes), keep)

isolates(u) ==
    SelectSeq2(u.nodes, {n \in Range(u.nodes) : \A e \in u.edges : e[1] # n /\ e[2] # n})

RECURSIVE Reach(_, _)
\* the nodes reachable from the set S
Reach(u, S) ==
    LET T == S \cup {e[2] : e \in {d \in u.edges : d[1] \in S}}
    IN IF T = S THEN S ELSE Reach(u, T)

RECURSIVE Components(_, _, _)
\* nx.connected_components: one component per not yet seen node, in node order
Components(u, nodes, seen) ==
    IF nodes = <<>> THEN <<>>
    ELSE IF Head(nodes) \in seen THEN Components(u, Tail(nodes), seen)
    ELSE LET c == Reach(u, {Head(nodes)})
         IN <<c>> \o Components(u, Tail(nodes), seen \cup c)

connected_components(u) == Components(u, u.nodes, {})

RECURSIVE InsertBySize(_, _)
InsertBySize(sorted, c) ==
    IF sorted = <<>> THEN <<c>>
    ELSE IF Cardinality(Head(sorted)) >= Cardinality(c)
         THEN <<Head(sorted)>> \o InsertBySize(Tail(sorted), c)
         ELSE <<c>> \o sorted

RECURSIVE SortBySize(_, _)
\* sorted(components, key=len, reverse=True)
SortBySize(sorted, cs) ==
    IF cs = <<>> THEN sorted
    ELSE SortBySize(InsertBySize(sorted, Head(cs)), Tail(cs))

\* faulty variant of the test below: the boundary of exactly one half counts
IsGiantInclusive(largest, total) == 2 * largest >= total

\* len(largest_component) / len(G_undirected) > 0.5 ; the quotient of two
\* integers below 2^53 exceeds 0.5 exactly when twice the first exceeds the second
IsGiant(largest, total) == 2 * largest > total

\* main.py:273: no advisees, or the one-element list [""]
HasNoAdvisees(a) ==
    \/ a.items = <<>>
    \/ a.list /\ Len(a.items) = 1 /\ a.items[1][1] = ""

RECURSIVE NoAdviseesOf(_)
\* main.py:264-274
NoAdviseesOf(datas) ==
    IF datas = <<>> THEN <<>>
    ELSE (IF Head(datas).acad /\ HasNoAdvisees(Head(datas).advisees)
          THEN <<Head(datas).ID>> ELSE <<>>) \o NoAdviseesOf(Tail(datas))

RECURSIVE Rows(_)
\* main.py:305-317
Rows(datas) ==
    IF datas = <<>> THEN <<>>
    ELSE (IF Head(datas).acad
          THEN <<[ID |-> Head(datas).ID, Nome |-> Head(datas).name,
                  Descendentes |-> Head(datas).dcount,
                  Orientandos_Diretos |-> Len(Head(datas).advisees.items)]>>
          ELSE <<>>) \o Rows(Tail(datas))

(***************************************************************************)
(* State of one run of main() and of what outlives it (the cache file).    *)
(***************************************************************************)
VARIABLES
    dir,                 \* the remote directory service
    file,                \* cache_brazil_data.json
    pc,                  \* position of main()
    err,                 \* the exception that ended the run, "" if none
    cached_data, brazil_ids, mathematicians_data, goto_analysis, choice,
    future,              \* state of each submitted task
    result,              \* future.result() of each finished task
    yielded,             \* tasks as_completed has handed to the loop
    seq_i,               \* position of the sequential loop
    pending,             \* chunks json.dump has still to write
    intended,            \* all chunks of the snapshot being saved
    before,              \* the file as it was when save_cache was entered
    observed,            \* the file as load_cache found it
    resumed,             \* this run follows an interrupted save_cache
    loads, saves, requests, prompted,
    advisor_board, school_board, best, G, isolated_nodes, no_advisees,
    components_sorted, giant, df_data

acqVars == <<cached_data, brazil_ids, mathematicians_data, goto_analysis, choice>>
poolVars == <<future, result, yielded, seq_i>>
saveVars == <<pending, intended, before>>
histVars == <<observed, resumed, loads, saves, requests, prompted>>
anaVars == <<advisor_board, school_board, best, G, isolated_nodes, no_advisees,
             components_sorted, giant, df_data>>
vars == <<dir, file, pc, err, acqVars, poolVars, saveVars, histVars, anaVars>>

RECURSIVE Bodies(_, _)
\* the records of the ids that do not fail, in the order of the id list
Bodies(d, ids) ==
    IF ids = <<>> THEN <<>>
    ELSE (IF d.resp[Head(ids)].fail THEN <<>> ELSE <<d.resp[Head(ids)].body>>)
         \o Bodies(d, Tail(ids))

AllKeys == {"ids", "data", "timestamp"}

\* the snapshot an earlier complete run against the directory has saved
OldSnapshot(d) ==
    LET ids == get_mathematician_ids_by_country(d.search)
    IN Json(AllKeys, ids, Bodies(d, ids), 1)

RunInit ==
    /\ pc = "load"
    /\ err = ""
    /\ cached_data = NoCache
    /\ brazil_ids = <<>>
    /\ mathematicians_data = <<>>
    /\ goto_analysis = FALSE
    /\ choice = ""
    /\ future = <<>>
    /\ result = <<>>
    /\ yielded = {}
    /\ seq_i = 0
    /\ pending = <<>>
    /\ intended = <<>>
    /\ loads = 0
    /\ saves = 0
    /\ requests = 0
    /\ prompted = FALSE
    /\ advisor_board = <<>>
    /\ school_board = <<>>
    /\ best = NoTop
    /\ G = EmptyGraph
    /\ isolated_nodes = <<>>
    /\ no_advisees = <<>>
    /\ components_sorted = <<>>
    /\ giant = "unset"
    /\ df_data = <<>>

Init ==
    /\ dir \in Directories
    /\ file \in {NoFile, File(Dump(OldSnapshot(dir))), Unreadable(Dump(OldSnapshot(dir)))}
    /\ before = file
    /\ observed = file
    /\ resumed = FALSE
    /\ RunInit

(***************************************************************************)
(* main(), lines 131-147: the cache.                                       *)
(***************************************************************************)
LoadCache ==
    /\ pc = "load"
    /\ LET r == load_cache(file) IN
        /\ err' = r.raises
        /\ cached_data' = r.value
        /\ pc' = IF r.raises # "" THEN "crashed"
                 ELSE IF CacheTruthy(r.value) THEN "prompt" ELSE "search"
    /\ loads' = loads + 1
    /\ observed' = file
    /\ UNCHANGED <<dir, file, brazil_ids, mathematicians_data, goto_analysis, choice,
                   poolVars, saveVars, resumed, saves, requests, prompted, anaVars>>

\* the operator answers the question "Deseja usar? (s/n)"
PromptCache(use_cache) ==
    /\ pc = "prompt"
    /\ prompted' = TRUE
    /\ IF use_cache = "s"
       THEN IF AllKeys \subseteq cached_data.keys
            THEN /\ brazil_ids' = cached_data.ids
                 /\ mathematicians_data' = cached_data.data
                 /\ goto_analysis' = TRUE
                 /\ pc' = "rank_advisors"
                 /\ err' = err
            ELSE /\ pc' = "crashed"
                 /\ err' = "KeyError"
                 /\ UNCHANGED <<brazil_ids, mathematicians_data, goto_analysis>>
       ELSE /\ pc' = "search"
            /\ UNCHANGED <<err, brazil_ids, mathematicians_data, goto_analysis>>
    /\ UNCHANGED <<dir, file, cached_data, choice, poolVars, saveVars, observed, resumed,
                   loads, saves, requests, anaVars>>

(***************************************************************************)
(* main(), lines 149-181: fresh acquisition.                               *)
(***************************************************************************)
\* get_mathematician_ids_by_country("Brazil"); raise_for_status may raise
Search(ok) ==
    /\ pc = "search"
    /\ requests' = requests + 1
    /\ IF ok
       THEN /\ brazil_ids' = get_mathematician_ids_by_country(dir.search)
            /\ pc' = "choose"
            /\ err' = err
       ELSE /\ pc' = "crashed"
            /\ err' = "HTTPError"
            /\ UNCHANGED brazil_ids
    /\ UNCHANGED <<dir, file, cached_data, mathematicians_data, goto_analysis, choice,
                   poolVars, saveVars, observed, resumed, loads, saves, prompted, anaVars>>

\* the operator picks the method; "1" submits one task per id to the pool
Choose(c) ==
    /\ pc = "choose"
    /\ choice' = c
    /\ mathematicians_data' = <<>>
    /\ IF c = "1"
       THEN /\ future' = [i \in 1..Len(brazil_ids) |-> "queued"]
            /\ result' = [i \in 1..Len(brazil_ids) |-> NoneVal]
            /\ yielded' = {}
            /\ seq_i' = seq_i
            /\ pc' = "parallel"
       ELSE /\ seq_i' = 1
            /\ pc' = "sequential"
            /\ UNCHANGED <<future, result, yielded>>
    /\ UNCHANGED <<dir, file, err, cached_data, brazil_ids, goto_analysis, saveVars,
                   histVars, anaVars>>

Running == {i \in DOMAIN future : future[i] = "running"}

\* a pool thread takes the oldest queued task and issues its request
WorkerRun(i) ==
    /\ pc = "parallel"
    /\ future[i] = "queued"
    /\ \A j \in 1..(i - 1) : future[j] # "queued"
    /\ Cardinality(Running) < MAX_WORKERS
    /\ future' = [future EXCEPT ![i] = "running"]
    /\ requests' = requests + 1
    /\ UNCHANGED <<dir, file, pc, err, acqVars, result, yielded, seq_i, saveVars,
                   observed, resumed, loads, saves, prompted, anaVars>>

\* the request of task i returns or fails; the task ends with its result
WorkerDone(i) ==
    /\ pc = "parallel"
    /\ future[i] = "running"
    /\ future' = [future EXCEPT ![i] = "done"]
    /\ result' = [result EXCEPT ![i] = fetch_mathematician_parallel(dir.resp[brazil_ids[i]])]
    /\ UNCHANGED <<dir, file, pc, err, acqVars, yielded, seq_i, saveVars, histVars, anaVars>>

\* one turn of the loop over as_completed (lines 83-86)
Collect(i) ==
    /\ pc = "parallel"
    /\ future[i] = "done"
    /\ i \notin yielded
    /\ yielded' = yielded \cup {i}
    /\ mathematicians_data' = IF Truthy(result[i])
                              THEN Append(mathematicians_data, result[i])
                              ELSE mathematicians_data
    /\ UNCHANGED <<dir, file, pc, err, cached_data, brazil_ids, goto_analysis, choice,
                   future, result, seq_i, saveVars, histVars, anaVars>>

\* faulty variant of the condition below: the call returns with the first
\* result, not waiting for the other tasks
BatchOverAfterFirst == yielded # {} \/ DOMAIN future = {}

\* the loop has seen every future and the executor has shut down (wait=True)
BatchOver ==
    /\ yielded = DOMAIN future
    /\ \A i \in DOMAIN future : future[i] = "done"

\* fetch_all_mathematicians_parallel returns (line 88)
ParallelReturn ==
    /\ pc = "parallel"
    /\ BatchOver
    /\ pc' = "save"
    /\ UNCHANGED <<dir, file, err, acqVars, poolVars, saveVars, histVars, anaVars>>

\* one turn of the sequential loop (lines 169-174)
SequentialStep ==
    /\ pc = "sequential"
    /\ seq_i <= Len(brazil_ids)
    /\ requests' = requests + 1
    /\ seq_i' = seq_i + 1
    /\ mathematicians_data' =
          IF dir.resp[brazil_ids[seq_i]].fail
          THEN mathematicians_data
          ELSE Append(mathematicians_data, dir.resp[brazil_ids[seq_i]].body)
    /\ UNCHANGED <<dir, file, pc, err, cached_data, brazil_ids, goto_analysis, choice,
                   future, result, yielded, saveVars, observed, resumed, loads, saves,
                   prompted, anaVars>>

\* faulty variant of the step below: the analysis starts without save_cache
SequentialReturnNoSave ==
    /\ pc = "sequential"
    /\ seq_i > Len(brazil_ids)
    /\ pc' = "rank_advisors"
    /\ UNCHANGED <<dir, file, err, acqVars, poolVars, saveVars, histVars, anaVars>>

SequentialReturn ==
    /\ pc = "sequential"
    /\ seq_i > Len(brazil_ids)
    /\ pc' = "save"
    /\ UNCHANGED <<dir, file, err, acqVars, poolVars, saveVars, histVars, anaVars>>

(***************************************************************************)
(* save_cache (lines 24-28), called at line 177.                           *)
(***************************************************************************)
\* open(filename, 'w') truncates the file
SaveOpen ==
    /\ pc = "save"
    /\ saves' = saves + 1
    /\ before' = file
    /\ intended' = Dump(Json(AllKeys, brazil_ids, mathematicians_data, 2))
    /\ pending' = Dump(Json(AllKeys, brazil_ids, mathematicians_data, 2))
    /\ file' = File(<<>>)
    /\ pc' = "writing"
    /\ UNCHANGED <<dir, err, acqVars, poolVars, observed, resumed, loads, requests,
                   prompted, anaVars>>

\* json.dump writes its next chunk
SaveWrite ==
    /\ pc = "writing"
    /\ pending # <<>>
    /\ file' = [file EXCEPT !.content = Append(file.content, Head(pending))]
    /\ pending' = Tail(pending)
    /\ UNCHANGED <<dir, pc, err, acqVars, poolVars, intended, before, histVars, anaVars>>

\* the with block closes the file
SaveClose ==
    /\ pc = "writing"
    /\ pending = <<>>
    /\ pc' = "rank_advisors"
    /\ UNCHANGED <<dir, file, err, acqVars, poolVars, saveVars, histVars, anaVars>>

\* the process is killed while save_cache has the file open
Interrupt ==
    /\ pc = "writing"
    /\ pending # <<>>
    /\ pc' = "interrupted"
    /\ UNCHANGED <<dir, file, err, acqVars, poolVars, saveVars, histVars, anaVars>>

\* the program is run again after the interruption; only the file remains
Restart ==
    /\ pc = "interrupted"
    /\ resumed' = TRUE
    /\ pc' = "load"
    /\ err' = ""
    /\ cached_data' = NoCache
    /\ brazil_ids' = <<>>
    /\ mathematicians_data' = <<>>
    /\ goto_analysis' = FALSE
    /\ choice' = ""
    /\ future' = <<>>
    /\ result' = <<>>
    /\ yielded' = {}
    /\ seq_i' = 0
    /\ pending' = <<>>
    /\ loads' = 0
    /\ saves' = 0
    /\ requests' = 0
    /\ prompted' = FALSE
    /\ UNCHANGED <<dir, file, intended, before, observed, anaVars>>

(***************************************************************************)
(* main(), lines 187-321: the analysis of mathematicians_data.             *)
(***************************************************************************)
RankAdvisors ==
    /\ pc = "rank_advisors"
    /\ advisor_board' = most_common(CountAdvisors(<<>>, mathematicians_data), TopN)
    /\ pc' = "rank_schools"
    /\ UNCHANGED <<dir, file, err, acqVars, poolVars, saveVars, histVars, school_board,
                   best, G, isolated_nodes, no_advisees, components_sorted, giant, df_data>>

RankSchools ==
    /\ pc = "rank_schools"
    /\ school_board' = most_common(CountSchools(<<>>, mathematicians_data), TopN)
    /\ pc' = "max_descendants"
    /\ UNCHANGED <<dir, file, err, acqVars, poolVars, saveVars, histVars, advisor_board,
                   best, G, isolated_nodes, no_advisees, components_sorted, giant, df_data>>

MaxDescendants ==
    /\ pc = "max_descendants"
    /\ best' = ScanDescendants(NoTop, mathematicians_data)
    /\ pc' = "graph"
    /\ UNCHANGED <<dir, file, err, acqVars, poolVars, saveVars, histVars, advisor_board,
                   school_board, G, isolated_nodes, no_advisees, components_sorted, giant,
                   df_data>>

\* lines 244-254; the installed networkx refuses None as a node, or does not
GraphStage(refusesNone) ==
    /\ pc = "graph"
    /\ LET st == BuildGraph([g |-> EmptyGraph, raises |-> ""], mathematicians_data,
                            refusesNone)
       IN /\ G' = st.g
          /\ err' = st.raises
          /\ pc' = IF st.raises # "" THEN "crashed" ELSE "structure"
    /\ UNCHANGED <<dir, file, acqVars, poolVars, saveVars, histVars, advisor_board,
                   school_board, best, isolated_nodes, no_advisees, components_sorted,
                   giant, df_data>>

\* lines 257-301
Structure ==
    /\ pc = "structure"
    /\ LET u == to_undirected(G)
           sorted == SortBySize(<<>>, connected_components(u))
       IN /\ isolated_nodes' = isolates(u)
          /\ no_advisees' = NoAdviseesOf(mathematicians_data)
          /\ components_sorted' = IF Len(u.nodes) > 0 THEN sorted ELSE <<>>
          /\ giant' = IF Len(u.nodes) > 0 /\ sorted # <<>>
                      THEN (IF IsGiant(Cardinality(sorted[1]), Len(u.nodes))
                            THEN "yes" ELSE "no")
                      ELSE "empty"
    /\ pc' = "export"
    /\ UNCHANGED <<dir, file, err, acqVars, poolVars, saveVars, histVars, advisor_board,
                   school_board, best, G, df_data>>

Export ==
    /\ pc = "export"
    /\ df_data' = Rows(mathematicians_data)
    /\ pc' = "done"
    /\ UNCHANGED <<dir, file, err, acqVars, poolVars, saveVars, histVars, advisor_board,
                   school_board, best, G, isolated_nodes, no_advisees, components_sorted,
                   giant>>

Next ==
    \/ LoadCache
    \/ \E use_cache \in {"s", "n"} : PromptCache(use_cache)
    \/ \E ok \in BOOLEAN : Search(ok)
    \/ \E c \in {"1", "2"} : Choose(c)
    \/ \E i \in DOMAIN future : WorkerRun(i)
    \/ \E i \in DOMAIN future : WorkerDone(i)
    \/ \E i \in DOMAIN future : Collect(i)
    \/ ParallelReturn
    \/ SequentialStep
    \/ SequentialReturn
    \/ SaveOpen
    \/ SaveWrite
    \/ SaveClose
    \/ Interrupt
    \/ Restart
    \/ RankAdvisors
    \/ RankSchools
    \/ MaxDescendants
    \/ \E refusesNone \in BOOLEAN : GraphStage(refusesNone)
    \/ Structure
    \/ Export

Spec == Init /\ [][Next]_vars

\* the pool's threads keep running, every remote call returns or fails, and
\* the calling thread keeps consuming as_completed
FairSpec ==
    /\ Spec
    /\ WF_vars(\E i \in DOMAIN future : WorkerRun(i))
    /\ WF_vars(\E i \in DOMAIN future : WorkerDone(i))
    /\ WF_vars(\E i \in DOMAIN future : Collect(i))
    /\ WF_vars(ParallelReturn)

(***************************************************************************)
(* Properties.                                                             *)
(***************************************************************************)
\* the multiset of the elements of a sequence
BagOfSeq(s) == [x \in Range(s) |-> Cardinality({i \in 1..Len(s) : s[i] = x})]

\* the positions of main() inside the analysis
AnalysisPcs == {"rank_advisors", "rank_schools", "max_descendants", "graph",
                "structure", "export", "done"}

\* the records a batch yields when its tasks complete in the order of the id list
InputOrderData == SelectSeq(Bodies(dir, brazil_ids), Truthy)

\* C1: when fetch_all_mathematicians_parallel returns, its result holds exactly
\* the records of the ids whose fetch succeeded (as a multiset), whatever the
\* interleaving of the tasks.
C1_ExactlyTheSucceeded ==
    (pc = "save" /\ choice = "1")
        => BagOfSeq(mathematicians_data) = BagOfSeq(Bodies(dir, brazil_ids))

\* C2: under fair scheduling a started batch always reaches its return, and
\* the call has returned only when every submitted task is done (none is
\* queued or running).
C2_BatchRunsToCompletion ==
    /\ [](pc = "parallel" => <>(pc = "save"))
    /\ []((choice = "1" /\ pc # "parallel")
            => \A i \in DOMAIN future : future[i] = "done")

\* C2 witness: a batch of three ids has returned, one task having failed and
\* another having delivered its record
C2_Witness ==
    /\ pc = "save"
    /\ choice = "1"
    /\ Len(brazil_ids) = 3
    /\ \E i \in DOMAIN result : result[i].none
    /\ \E i \in DOMAIN result : Truthy(result[i])

\* C3: after a parallel fetch the advisor leaderboard (order and display
\* names), the institution leaderboard and the maximum-descendant record are
\* those obtained when the tasks complete in input-list order, for every
\* completion order.
C3_CompletionOrderIndependent ==
    (pc = "done" /\ choice = "1")
        => /\ advisor_board = most_common(CountAdvisors(<<>>, InputOrderData), TopN)
           /\ school_board = most_common(CountSchools(<<>>, InputOrderData), TopN)
           /\ best = ScanDescendants(NoTop, InputOrderData)

\* C4: a load_cache in the run that follows an interrupted save_cache finds
\* the file as it was before the save (or absent) or holding the complete new
\* snapshot.
C4_AtomicReplace ==
    (resumed /\ loads = 1) => (observed = before \/ observed = File(intended))

\* C5: load_cache never raises: no run ends with an exception of load_cache.
C5_LoadNeverRaises ==
    ~(pc = "crashed" /\ loads = 1 /\ err \in {"JSONDecodeError", "PermissionError"})

\* C6: after graph construction no node of the graph is None or the empty id.
C6_NoAbsentEndpoint ==
    (pc \in {"structure", "export", "done"})
        => \A n \in Range(G.nodes) : n # NONE /\ n # ""

\* C7: for the records where A advised B and C, B advised D and E is
\* disconnected, the structural analysis reports two components of sizes 4
\* and 1, the single isolated node E, and a giant component.
C7_FiveRecordScenario ==
    (dir = Genealogy5 /\ pc = "done")
        => /\ Len(components_sorted) = 2
           /\ Cardinality(components_sorted[1]) = 4
           /\ Cardinality(components_sorted[2]) = 1
           /\ isolated_nodes = <<"E">>
           /\ giant = "yes"

\* C8: the sequential and the parallel mode both return one record for each
\* id whose fetch succeeded and none for each id whose fetch failed.
C8_SameContract ==
    (pc = "save" /\ choice \in {"1", "2"})
        => BagOfSeq(Bodies(dir, brazil_ids)) = BagOfSeq(mathematicians_data)

\* the snapshot of this run's id list and records
RunSnapshot == File(Dump(Json(AllKeys, brazil_ids, mathematicians_data, 2)))

\* C9 as stated: every run that ended without using a snapshot, the snapshot
\* having been declined or none existing, has written the cache exactly once.
C9_AlwaysWritesOnce ==
    (/\ pc \in {"done", "crashed"}
     /\ ~goto_analysis
     /\ prompted \/ ~observed.exists)
        => saves = 1

\* C9 amended: the cache is read at most once; a snapshot is used only after
\* the operator was asked and accepted, and then no request is issued and the
\* file is untouched; the cache is written at most once, only after the whole
\* batch (one request per id) has finished; the analysis of a run that did not
\* use a snapshot starts only after that write, the file holding the id list
\* and the records of the run; a run whose id search fails ends without
\* writing the cache.
C9_CacheLifecycle ==
    /\ loads <= 1
    /\ saves <= 1
    /\ goto_analysis => (prompted /\ requests = 0 /\ saves = 0 /\ file = observed)
    /\ saves = 1 =>
          /\ ~goto_analysis
          /\ requests = 1 + Len(brazil_ids)
          /\ choice = "1" => BatchOver
          /\ choice = "2" => seq_i > Len(brazil_ids)
    /\ (pc \in AnalysisPcs /\ ~goto_analysis) => (saves = 1 /\ file = RunSnapshot)
    /\ (pc = "crashed" /\ err = "HTTPError") => (saves = 0 /\ file = observed)

\* C9 witness: a snapshot existed and was declined, the fresh run fetched
\* records and finished with the cache rewritten
C9_Witness ==
    /\ pc = "done"
    /\ prompted
    /\ ~goto_analysis
    /\ saves = 1
    /\ mathematicians_data # <<>>
    /\ file # observed

\* the size of the largest connected component, from reachability alone
LargestComponent ==
    LET u == to_undirected(G)
        sizes == {Cardinality(Reach(u, {n})) : n \in Range(G.nodes)}
    IN CHOOSE m \in sizes : \A k \in sizes : k <= m

\* C10: for a non-empty graph the giant-component answer is yes exactly when
\* the largest component holds strictly more than half of the nodes.
C10_GiantBoundary ==
    (pc \in {"export", "done"} /\ G.nodes # <<>>)
        => /\ giant \in {"yes", "no"}
           /\ giant = "yes" <=> 2 * LargestComponent > Len(G.nodes)

\* C10 witness: the largest component is exactly half of the graph and the
\* answer is no
C10_Witness ==
    /\ pc = "done"
    /\ G.nodes # <<>>
    /\ 2 * LargestComponent = Len(G.nodes)
    /\ giant = "no"

====
